---- MODULE Spec2Model ----
(***************************************************************************)
(* Hampel filter of src/anomalydetection/hampel.py.                        *)
(*                                                                         *)
(* Three entry points are modelled:                                        *)
(*   filter / detect / validate_arguments   (pandas, centred rolling)      *)
(*   the jitted sliding-window loop          (lines 67-107)                *)
(*   the dataframe wrapper of the same name  (lines 110-135)               *)
(*                                                                         *)
(* Floats are fixed-point integers: the float 1.0 is Unit.  Inputs are     *)
(* multiples of Unit = 8, so every median (mean of the two middle values), *)
(* every absolute deviation and every MAD of a first and of a second pass  *)
(* is an exact integer, as it is an exact binary float in the program.     *)
(* NaN is a separate value; comparisons with NaN are false, as in IEEE.    *)
(* Positions are 0-based as in the source; TLA+ sequences are 1-based, so  *)
(* position i of a series s is s[i + 1].                                   *)
(***************************************************************************)
EXTENDS Integers, Sequences, FiniteSets, TLC

VARIABLES
    op,                 \* entry point called: "filter", "fast" or "wrapper"
    pc,                 \* position inside the call
    time_series,        \* the argument time_series (values), owned by the caller
    index,              \* the index of the pandas series: [kind, labels]
    window_size,        \* the argument window_size: [type, val]
    threshold,          \* the argument threshold: [type, val]
    k,                  \* the argument k: <<numerator, denominator>>
    time_series_clean,  \* local time_series_clean
    is_outlier,         \* local is_outlier
    outlier_indices,    \* local outlier_indices (0-based positions)
    rolling_median,     \* filter: third value returned by detect
    rolling_mad,        \* detect: rolling MAD after the fills (rolling_sigma / k)
    t,                  \* loop variable of the sliding-window loop
    evaluated,          \* positions the loop body has run for
    error,              \* exception raised out of the call, "none" if none
    pass,               \* 1: first call, 2: the call on the cleaned series
    first,              \* result of the first call, kept by the caller
    given,              \* values of the caller's series when the call was made
    alias,              \* time_series_clean is the caller's object, not a copy
    executed,           \* filter: the lines of filter executed so far
    frames,             \* wrapper: number of wrapper frames entered
    core_calls          \* wrapper: number of times the loop function was entered

vars == <<op, pc, time_series, index, window_size, threshold, k,
          time_series_clean, is_outlier, outlier_indices, rolling_median,
          rolling_mad, t, evaluated, error, pass, first, given, alias,
          executed, frames, core_calls>>

----------------------------------------------------------------------------
(* Bounds of the model *)

MaxLen == 5          \* longest enumerated series
MaxRadius == 2       \* largest enumerated valid window_size

(* Fixed-point representation of floats *)
Unit == 2 * 2 * 2
NaN == 0 - 1

(* GAUSSIAN_SCALE_FACTOR = 1.4826 = 7413 / 5000 *)
GAUSSIAN_SCALE_FACTOR == <<7413, 5000>>

----------------------------------------------------------------------------
(* numpy helpers *)

Abs(x) == IF x < 0 THEN 0 - x ELSE x

At(s, i) == s[i + 1]

Defined(x) == SelectSeq(x, LAMBDA v : v # NaN)

HasNaN(x) == \E i \in 1..Len(x) : x[i] = NaN

\* the j-th smallest entry of x (1-based), i.e. sorted(x)[j - 1]
KthSmallest(x, j) ==
    CHOOSE v \in {x[i] : i \in 1..Len(x)} :
        /\ Cardinality({i \in 1..Len(x) : x[i] < v}) < j
        /\ Cardinality({i \in 1..Len(x) : x[i] <= v}) >= j

\* median of a non-empty sequence without NaN: the middle entry, or the
\* mean of the two middle entries
SortedMedian(x) ==
    LET n == Len(x) IN
    IF n % 2 = 1
    THEN KthSmallest(x, (n + 1) \div 2)
    ELSE (KthSmallest(x, n \div 2) + KthSmallest(x, n \div 2 + 1)) \div 2

\* np.median: NaN when any entry is NaN or x is empty
Median(x) == IF Len(x) = 0 \/ HasNaN(x) THEN NaN ELSE SortedMedian(x)

\* np.nanmedian: median of the defined entries, NaN when there is none
NanMedian(x) == IF Len(Defined(x)) = 0 THEN NaN ELSE SortedMedian(Defined(x))

\* np.abs(x - m), element-wise, NaN propagating
AbsDev(x, m) ==
    [i \in 1..Len(x) |-> IF x[i] = NaN \/ m = NaN THEN NaN ELSE Abs(x[i] - m)]

\* np.abs(a - b) of two scalars
AbsDiff(a, b) == IF a = NaN \/ b = NaN THEN NaN ELSE Abs(a - b)

median_absolute_deviation(x) == Median(AbsDev(x, Median(x)))

\* s[lo:hi] of a numpy array or list, 0-based, hi exclusive, 0 <= lo
Slice(s, lo, hi) ==
    LET h == IF hi > Len(s) THEN Len(s) ELSE hi IN
    IF lo >= h THEN << >> ELSE SubSeq(s, lo + 1, h)

----------------------------------------------------------------------------
(* Argument values *)

IntArg(v) == [type |-> "int", val |-> v]
FloatArg(v) == [type |-> "float", val |-> v]

\* k * m for the scale factor k = <<num, den>>: a rational <<num, den>>,
\* with den = 0 standing for NaN
Scaled(kk, m) == IF m = NaN THEN <<0, 0>> ELSE <<kk[1] * m, kk[2]>>

\* Series.copy(), ndarray.copy(): a new object with the same values
SeriesCopy(ts) == [values |-> ts, same_object |-> FALSE]

----------------------------------------------------------------------------
(* The sliding-window loop, lines 67-107 *)

\* line 98: time_series[(t - window_size):(t + window_size)]
time_series_window(ts, tt, ws) == Slice(ts, tt - ws, tt + ws)

\* np.median in place of np.nanmedian at line 99
median_in_window_NaNPropagating(ts, tt, ws) ==
    Median(Slice(ts, tt - ws, tt + ws))

\* line 99
median_in_window(ts, tt, ws) == NanMedian(time_series_window(ts, tt, ws))

\* line 100
mad_in_window(ts, tt, ws, kk) ==
    Scaled(kk, NanMedian(AbsDev(time_series_window(ts, tt, ws),
                                median_in_window(ts, tt, ws))))

\* line 101
absolute_deviation_from_median(ts, tt, ws) ==
    AbsDiff(At(ts, tt), median_in_window(ts, tt, ws))

\* an inclusive comparison in place of the strict one of line 102
GreaterThan_Inclusive(dev, thr, sigma) ==
    /\ dev # NaN
    /\ sigma[2] # 0
    /\ dev * sigma[2] >= thr * sigma[1]

\* dev > thr * sigma                                       (line 102)
GreaterThan(dev, thr, sigma) ==
    /\ dev # NaN
    /\ sigma[2] # 0
    /\ dev * sigma[2] > thr * sigma[1]

\* line 102: the value assigned to is_outlier[t]
FastFlag(ts, tt, ws, thr, kk) ==
    GreaterThan(absolute_deviation_from_median(ts, tt, ws), thr,
                mad_in_window(ts, tt, ws, kk))

\* the median stored one position to the right
ReplaceAt_Next(clean, tt, m) == [clean EXCEPT ![tt + 2] = m]

\* line 105: time_series_clean[t] = median_in_window
ReplaceAt(clean, tt, m) == [clean EXCEPT ![tt + 1] = m]

\* a loop that runs one position further
LoopRange_OneMore(n, ws) == ws..(n - ws)

\* line 97: range(window_size, len(time_series) - window_size)
LoopRange(n, ws) == ws..(n - ws - 1)

\* lines 93-95
FastEnter ==
    /\ op = "fast"
    /\ pc = "call"
    /\ time_series_clean' = SeriesCopy(time_series).values
    /\ alias' = SeriesCopy(time_series).same_object
    /\ outlier_indices' = << >>
    /\ is_outlier' = [i \in 1..Len(time_series) |-> FALSE]
    /\ t' = window_size.val
    /\ evaluated' = {}
    /\ pc' = "loop"
    /\ UNCHANGED <<op, time_series, index, window_size, threshold, k,
                   rolling_median, rolling_mad, error, pass, first, given,
                   executed, frames, core_calls>>

\* lines 97-105: one iteration of the loop
FastStep ==
    /\ op = "fast"
    /\ pc = "loop"
    /\ t \in LoopRange(Len(time_series), window_size.val)
    /\ LET flag == FastFlag(time_series, t, window_size.val, threshold.val, k) IN
        /\ is_outlier' = [is_outlier EXCEPT ![t + 1] = flag]
        /\ outlier_indices' =
               IF flag THEN Append(outlier_indices, t) ELSE outlier_indices
        /\ time_series_clean' =
               IF flag
               THEN ReplaceAt(time_series_clean, t,
                              median_in_window(time_series, t, window_size.val))
               ELSE time_series_clean
    /\ time_series' = IF alias THEN time_series_clean' ELSE time_series
    /\ evaluated' = evaluated \cup {t}
    /\ t' = t + 1
    /\ UNCHANGED <<op, pc, index, window_size, threshold, k,
                   rolling_median, rolling_mad, error, pass, first, given,
                   alias, executed, frames, core_calls>>

\* line 107
FastReturn ==
    /\ op = "fast"
    /\ pc = "loop"
    /\ t \notin LoopRange(Len(time_series), window_size.val)
    /\ pc' = "returned"
    /\ UNCHANGED <<op, time_series, index, window_size, threshold, k,
                   time_series_clean, is_outlier, outlier_indices,
                   rolling_median, rolling_mad, t, evaluated, error, pass,
                   first, given, alias, executed, frames, core_calls>>

\* The caller keeps the first result and calls the loop again on the
\* cleaned series with the same parameters.
FastAgain ==
    /\ op = "fast"
    /\ pc = "returned"
    /\ pass = 1
    /\ first' = [input |-> time_series, mask |-> is_outlier,
                 indices |-> outlier_indices, clean |-> time_series_clean]
    /\ time_series' = time_series_clean
    /\ given' = time_series_clean
    /\ pass' = 2
    /\ pc' = "call"
    /\ UNCHANGED <<op, index, window_size, threshold, k, time_series_clean,
                   is_outlier, outlier_indices, rolling_median, rolling_mad,
                   t, evaluated, error, alias, executed, frames, core_calls>>

----------------------------------------------------------------------------
(* pandas helpers *)

Min(a, b) == IF a < b THEN a ELSE b
Max(a, b) == IF a > b THEN a ELSE b

\* Series.rolling(2 * ws, center=True): the window of position p is the
\* positions p - ws .. p + ws - 1, clipped to the series
RollingWindow(ts, p, ws) == Slice(ts, Max(p - ws, 0), Min(p + ws, Len(ts)))

\* min_periods is the window length 2 * ws: a window with fewer defined
\* observations gives NaN
HasMinPeriods(w, ws) == Len(Defined(w)) >= 2 * ws

\* rolling_ts.median()
RollingMedian(ts, ws) ==
    [i \in 1..Len(ts) |->
        LET w == RollingWindow(ts, i - 1, ws) IN
        IF HasMinPeriods(w, ws) THEN Median(w) ELSE NaN]

\* rolling_ts.apply(median_absolute_deviation)
RollingMad(ts, ws) ==
    [i \in 1..Len(ts) |->
        LET w == RollingWindow(ts, i - 1, ws) IN
        IF HasMinPeriods(w, ws) THEN median_absolute_deviation(w) ELSE NaN]

\* fillna(method='bfill'): the next defined value, NaN when there is none
Bfill(s) ==
    [i \in 1..Len(s) |->
        IF \E j \in i..Len(s) : s[j] # NaN
        THEN s[CHOOSE j \in i..Len(s) :
                   s[j] # NaN /\ \A j2 \in i..(j - 1) : s[j2] = NaN]
        ELSE NaN]

\* fillna(method='ffill'): the previous defined value, NaN when there is none
Ffill(s) ==
    [i \in 1..Len(s) |->
        IF \E j \in 1..i : s[j] # NaN
        THEN s[CHOOSE j \in 1..i :
                   s[j] # NaN /\ \A j2 \in (j + 1)..i : s[j2] = NaN]
        ELSE NaN]

\* positions counted from 1
Where_OneBased(mask) ==
    SelectSeq([i \in 1..Len(mask) |-> i], LAMBDA p : mask[p])

\* np.array(np.where(mask)).flatten(): the positions where mask is true,
\* ascending
Where(mask) ==
    SelectSeq([i \in 1..Len(mask) |-> i - 1], LAMBDA p : mask[p + 1])

\* The position a key of series[list_of_ints] selects: with an integer
\* index the key is a label, with any other index it is a position
\* (pandas falls back to positional indexing)
HasKey(idx, key) ==
    IF idx.kind = "int"
    THEN \E p \in 1..Len(idx.labels) : idx.labels[p] = key
    ELSE key >= 0 /\ key < Len(idx.labels)

PosOf(idx, key) ==
    IF idx.kind = "int"
    THEN (CHOOSE p \in 1..Len(idx.labels) : idx.labels[p] = key) - 1
    ELSE key

----------------------------------------------------------------------------
(* filter, detect, validate_arguments: lines 15-60 *)

\* window_size < 0 in place of window_size <= 0 at line 53
ValidationFails_ZeroAllowed(ws, thr) ==
    \/ ws.type # "int"
    \/ ws.val < 0
    \/ thr.type # "int"
    \/ thr.val < 0

\* lines 49-60: TRUE when validate_arguments raises ValueError
ValidationFails(ws, thr) ==
    \/ ws.type # "int"
    \/ ws.val <= 0
    \/ thr.type # "int"
    \/ thr.val < 0

\* line 42 without the forward fill
DetectRollingMedian_NoFfill(ts, ws) == Bfill(RollingMedian(ts, ws))

\* line 42
DetectRollingMedian(ts, ws) == Ffill(Bfill(RollingMedian(ts, ws)))

\* line 43, without the factor k
DetectRollingMad(ts, ws) == Ffill(Bfill(RollingMad(ts, ws)))

\* a strict comparison in place of the inclusive one of line 44
GreaterEqual_Strict(dev, thr, sigma) ==
    /\ dev # NaN
    /\ sigma[2] # 0
    /\ dev * sigma[2] > thr * sigma[1]

\* dev >= thr * sigma                                      (line 44)
GreaterEqual(dev, thr, sigma) ==
    /\ dev # NaN
    /\ sigma[2] # 0
    /\ dev * sigma[2] >= thr * sigma[1]

\* line 44
DetectMask(ts, rm, rmad, thr, kk) ==
    [i \in 1..Len(ts) |->
        GreaterEqual(AbsDiff(ts[i], rm[i]), thr, Scaled(kk, rmad[i]))]

\* line 30
Validate ==
    /\ op = "filter"
    /\ pc = "call"
    /\ IF ValidationFails(window_size, threshold)
       THEN pc' = "raised" /\ error' = "ValueError"
       ELSE pc' = "copy" /\ error' = error
    /\ executed' = Append(executed, 30)
    /\ UNCHANGED <<op, time_series, index, window_size, threshold, k,
                   time_series_clean, is_outlier, outlier_indices,
                   rolling_median, rolling_mad, t, evaluated, pass, first,
                   given, alias, frames, core_calls>>

\* line 32
Copy ==
    /\ op = "filter"
    /\ pc = "copy"
    /\ time_series_clean' = SeriesCopy(time_series).values
    /\ alias' = SeriesCopy(time_series).same_object
    /\ pc' = "detect"
    /\ executed' = Append(executed, 32)
    /\ UNCHANGED <<op, time_series, index, window_size, threshold, k,
                   is_outlier, outlier_indices, rolling_median, rolling_mad,
                   t, evaluated, error, pass, first, given, frames,
                   core_calls>>

\* line 33 and lines 39-46
Detect ==
    /\ op = "filter"
    /\ pc = "detect"
    /\ rolling_median' = DetectRollingMedian(time_series_clean, window_size.val)
    /\ rolling_mad' = DetectRollingMad(time_series_clean, window_size.val)
    /\ is_outlier' = DetectMask(time_series_clean, rolling_median',
                                rolling_mad', threshold.val, k)
    /\ outlier_indices' = Where(is_outlier')
    /\ pc' = "assign"
    /\ executed' = Append(executed, 33)
    /\ UNCHANGED <<op, time_series, index, window_size, threshold, k,
                   time_series_clean, t, evaluated, error, pass, first,
                   given, alias, frames, core_calls>>

\* line 34, the values written: rolling_median[keys] looked up by key,
\* stored into time_series_clean[keys] by key
Assigned(clean, idx, keys, rm) ==
    [i \in 1..Len(clean) |->
        IF \E j \in 1..Len(keys) : PosOf(idx, keys[j]) = i - 1
        THEN rm[i]
        ELSE clean[i]]

\* lines 34-36
Assign ==
    /\ op = "filter"
    /\ pc = "assign"
    /\ IF \E j \in 1..Len(outlier_indices) : ~HasKey(index, outlier_indices[j])
       THEN /\ pc' = "raised"
            /\ error' = "KeyError"
            /\ UNCHANGED <<time_series_clean, time_series>>
       ELSE /\ pc' = "returned"
            /\ error' = error
            /\ time_series_clean' =
                   Assigned(time_series_clean, index, outlier_indices,
                            rolling_median)
            /\ time_series' =
                   IF alias THEN time_series_clean' ELSE time_series
    /\ executed' = Append(executed, 34)
    /\ UNCHANGED <<op, index, window_size, threshold, k, is_outlier,
                   outlier_indices, rolling_median, rolling_mad, t, evaluated,
                   pass, first, given, alias, frames, core_calls>>

----------------------------------------------------------------------------
(* The dataframe wrapper, lines 110-135 *)

\* The function the module-level name hampel_filter_numba is bound to once
\* the module is imported: the def of line 110 rebinds the name that the
\* def of line 68 bound to the jitted loop.
ModuleBinding == "wrapper"

\* int(window_size / 2) for window_size >= 0                     (line 132)
HalfWindow(ws) == ws \div 2

\* lines 132-133 in the frame the caller entered: the argument is a pandas
\* series, to_numpy() gives the raw buffer, and the call of
\* hampel_filter_numba goes to whatever the name is bound to.  Were it the
\* loop, its three return values would not unpack into the two names of
\* line 133.
WrapperCall ==
    /\ op = "wrapper"
    /\ pc = "call"
    /\ frames' = frames + 1
    /\ window_size' = IntArg(HalfWindow(window_size.val))
    /\ index' = [kind |-> "ndarray", labels |-> << >>]
    /\ IF ModuleBinding = "wrapper"
       THEN /\ pc' = "inner"
            /\ UNCHANGED <<error, core_calls>>
       ELSE /\ core_calls' = core_calls + 1
            /\ pc' = "raised"
            /\ error' = "ValueError"
    /\ UNCHANGED <<op, time_series, threshold, k, time_series_clean,
                   is_outlier, outlier_indices, rolling_median, rolling_mad,
                   t, evaluated, pass, first, given, alias, executed>>

\* lines 132-133 in the frame the wrapper entered itself: the argument is
\* the ndarray, which has no to_numpy
WrapperInner ==
    /\ op = "wrapper"
    /\ pc = "inner"
    /\ frames' = frames + 1
    /\ window_size' = IntArg(HalfWindow(window_size.val))
    /\ pc' = "raised"
    /\ error' = "AttributeError"
    /\ UNCHANGED <<op, time_series, index, threshold, k, time_series_clean,
                   is_outlier, outlier_indices, rolling_median, rolling_mad,
                   t, evaluated, pass, first, given, alias, executed,
                   core_calls>>

----------------------------------------------------------------------------
(* Inputs *)

Values == {0, Unit, 2 * Unit, NaN}

SeriesSet == UNION {[1..n -> Values] : n \in 0..MaxLen}

\* length 21, all 1.0 except 100.0 at position 10
Spike21 == [i \in 1..21 |-> IF i = 11 THEN 100 * Unit ELSE Unit]

\* two bumps two apart
TwoBumps == <<0, 0, Unit, 0, Unit, 0, 0>>

\* a run of missing values followed by a bump
WithGaps == <<NaN, NaN, NaN, NaN, 0, 2 * Unit, 0, 0>>

\* indexes of a series of length n
RangeIndex(n) == [kind |-> "int", labels |-> [i \in 1..n |-> i - 1]]
ShiftedIndex(n) == [kind |-> "int", labels |-> [i \in 1..n |-> i]]
ReversedIndex(n) == [kind |-> "int", labels |-> [i \in 1..n |-> n - i]]
DatetimeIndex(n) == [kind |-> "datetime", labels |-> [i \in 1..n |-> i - 1]]
NoIndex == [kind |-> "ndarray", labels |-> << >>]

Indexes(n) == {RangeIndex(n), ShiftedIndex(n), ReversedIndex(n), DatetimeIndex(n)}

ValidWindows == {IntArg(w) : w \in 1..MaxRadius}
InvalidWindows == {IntArg(0), IntArg(0 - 1), FloatArg(1)}
ValidThresholds == {IntArg(3), IntArg(0)}
InvalidThresholds == {IntArg(0 - 1), FloatArg(3)}
WrapperWindows == {IntArg(1), IntArg(3), IntArg(4), IntArg(7)}
ScaleFactors == {GAUSSIAN_SCALE_FACTOR, <<1, 1>>}

NoResult == [input |-> << >>, mask |-> << >>, indices |-> << >>, clean |-> << >>]

InitLocals ==
    /\ pc = "call"
    /\ time_series_clean = << >>
    /\ is_outlier = << >>
    /\ outlier_indices = << >>
    /\ rolling_median = << >>
    /\ rolling_mad = << >>
    /\ t = 0
    /\ evaluated = {}
    /\ error = "none"
    /\ pass = 1
    /\ first = NoResult
    /\ given = time_series
    /\ alias = FALSE
    /\ executed = << >>
    /\ frames = 0
    /\ core_calls = 0

\* filter(series, window_size, threshold)
InitRef ==
    /\ op = "filter"
    /\ time_series \in SeriesSet
    /\ \/ /\ index \in Indexes(Len(time_series))
          /\ window_size \in ValidWindows
          /\ threshold \in ValidThresholds
       \/ /\ index = RangeIndex(Len(time_series))
          /\ window_size \in ValidWindows \cup InvalidWindows
          /\ threshold \in ValidThresholds \cup InvalidThresholds
          /\ window_size \in InvalidWindows \/ threshold \in InvalidThresholds
    /\ k = GAUSSIAN_SCALE_FACTOR
    /\ InitLocals

\* the loop called on a raw buffer
InitFast ==
    /\ op = "fast"
    /\ index = NoIndex
    /\ \/ /\ time_series \in SeriesSet
          /\ window_size \in ValidWindows
          /\ threshold \in ValidThresholds
          /\ k \in ScaleFactors
       \/ /\ time_series = Spike21
          /\ window_size = IntArg(5)
          /\ threshold = IntArg(3)
          /\ k = GAUSSIAN_SCALE_FACTOR
       \/ /\ time_series \in {TwoBumps, WithGaps}
          /\ window_size = IntArg(2)
          /\ threshold = IntArg(3)
          /\ k = GAUSSIAN_SCALE_FACTOR
    /\ InitLocals

\* the wrapper called on a series with a datetime index
InitWrapper ==
    /\ op = "wrapper"
    /\ time_series \in SeriesSet
    /\ index = DatetimeIndex(Len(time_series))
    /\ window_size \in WrapperWindows
    /\ threshold \in ValidThresholds
    /\ k = GAUSSIAN_SCALE_FACTOR
    /\ InitLocals

Init == InitRef \/ InitFast \/ InitWrapper

NextRef == Validate \/ Copy \/ Detect \/ Assign
NextFast == FastEnter \/ FastStep \/ FastReturn \/ FastAgain
NextWrapper == WrapperCall \/ WrapperInner

Next == NextRef \/ NextFast \/ NextWrapper

Spec == Init /\ [][Next]_vars
SpecRef == InitRef /\ [][NextRef]_vars
SpecFast == InitFast /\ [][NextFast]_vars
SpecWrapper == InitWrapper /\ [][NextWrapper]_vars

----------------------------------------------------------------------------
(* Helpers of the properties *)

Elems(s) == {s[i] : i \in 1..Len(s)}

StrictlyAscending(s) == \A i \in 1..(Len(s) - 1) : s[i] < s[i + 1]

IsConstant(ts) == \A i \in 1..Len(ts) : ts[i] # NaN /\ ts[i] = ts[1]

FilterReturned == op = "filter" /\ pc = "returned"

----------------------------------------------------------------------------
(* C1 *)

\* C1, as stated: filter on a constant series with threshold 3 returns a
\* mask that is false everywhere, no outlier index, and the input values.
C1_ConstantSeriesNeverFlagged ==
    (FilterReturned /\ IsConstant(given) /\ threshold = IntArg(3)) =>
        /\ \A i \in 1..Len(is_outlier) : ~is_outlier[i]
        /\ outlier_indices = << >>
        /\ time_series_clean = given

\* C1, amended: whenever filter returns for a constant series with
\* threshold 3, cleaned_series equals the input; the mask is true at every
\* position and outlier_indices is 0..n-1 when the series holds a full
\* window (n >= 2 * window_size), since 0 >= 3 * k * 0 under the inclusive
\* comparison; the mask is false everywhere and outlier_indices is empty
\* when n < 2 * window_size.
C1_ConstantSeriesFlaggedWhenWindowFits ==
    (FilterReturned /\ IsConstant(given) /\ threshold = IntArg(3)) =>
        /\ time_series_clean = given
        /\ Len(is_outlier) = Len(given)
        /\ IF Len(given) >= 2 * window_size.val
           THEN /\ \A i \in 1..Len(given) : is_outlier[i]
                /\ outlier_indices = [i \in 1..Len(given) |-> i - 1]
           ELSE /\ \A i \in 1..Len(given) : ~is_outlier[i]
                /\ outlier_indices = << >>

C1_Witness ==
    /\ FilterReturned
    /\ IsConstant(given)
    /\ threshold = IntArg(3)
    /\ Len(given) > 2 * window_size.val
    /\ \A i \in 1..Len(given) : is_outlier[i]
    /\ time_series_clean = given

----------------------------------------------------------------------------
(* C2 *)

\* C2: for any index and valid arguments the cleaned series filter returns
\* has the input's length, holds rolling_median[i] at every position i of
\* outlier_indices and the input's value at every other position, and the
\* caller's series is unchanged.
C2_CleanedReplacesExactlyTheFlagged ==
    FilterReturned =>
        /\ Len(time_series_clean) = Len(given)
        /\ \A i \in 1..Len(given) :
               time_series_clean[i] =
                   IF (i - 1) \in Elems(outlier_indices)
                   THEN rolling_median[i]
                   ELSE given[i]
        /\ time_series = given

----------------------------------------------------------------------------
(* C3 *)

\* C3: in filter/detect and in the loop, outlier_indices is strictly
\* ascending (so without duplicates) and holds position i exactly when
\* is_outlier[i] is true.
C3_IndicesAreTheSortedMask ==
    (\/ op = "filter" /\ pc \in {"assign", "returned"}
     \/ op = "fast" /\ pc \in {"loop", "returned"}) =>
        /\ StrictlyAscending(outlier_indices)
        /\ \A p \in 0..(Len(is_outlier) - 1) :
               p \in Elems(outlier_indices) <=> is_outlier[p + 1]
        /\ Elems(outlier_indices) \subseteq 0..(Len(is_outlier) - 1)

C3_Witness ==
    /\ op = "fast"
    /\ pc = "returned"
    /\ Len(outlier_indices) >= 2
    /\ \E p \in 0..(Len(is_outlier) - 1) : ~is_outlier[p + 1] /\ p \in evaluated

----------------------------------------------------------------------------
(* C4 *)

----------------------------------------------------------------------------
(* C5 *)

FastRunning == op = "fast" /\ pc \in {"loop", "returned"}

\* C5: in the loop, for every length n and radius window_size >= 1, the
\* positions 0..window_size-1 and n-window_size..n-1 are never flagged, are
\* not in outlier_indices and keep the input value in the cleaned series;
\* only positions window_size..n-window_size-1 are evaluated.
C5_BoundaryNeverFlagged ==
    FastRunning =>
        /\ \A p \in 0..(Len(given) - 1) :
               (p < window_size.val \/ p >= Len(given) - window_size.val) =>
                   /\ ~is_outlier[p + 1]
                   /\ p \notin Elems(outlier_indices)
                   /\ time_series_clean[p + 1] = given[p + 1]
        /\ evaluated \subseteq
               {p \in 0..(Len(given) - 1) :
                    window_size.val <= p /\ p <= Len(given) - window_size.val - 1}

C5_Witness ==
    /\ op = "fast"
    /\ pc = "returned"
    /\ window_size.val = 2
    /\ evaluated = {2}
    /\ outlier_indices = <<2>>
    /\ given[4] # given[5]

----------------------------------------------------------------------------
(* C6 *)

\* C6: the loop on the series of length 21 that is 1.0 everywhere except
\* 100.0 at position 10, with window_size 5 and threshold 3, flags position
\* 10 and no other, returns outlier_indices = [10], and the cleaned series
\* is 1.0 at position 10 and the input elsewhere.
C6_SingleSpike ==
    (op = "fast" /\ pc = "returned" /\ given = Spike21
        /\ window_size = IntArg(5) /\ threshold = IntArg(3)) =>
        /\ is_outlier = [i \in 1..21 |-> i = 11]
        /\ outlier_indices = <<10>>
        /\ time_series_clean = [i \in 1..21 |-> Unit]
        /\ \A i \in (1..21) \ {11} : time_series_clean[i] = given[i]

C6_Witness ==
    /\ op = "fast"
    /\ pc = "returned"
    /\ given = Spike21
    /\ window_size = IntArg(5)
    /\ threshold = IntArg(3)
    /\ At(is_outlier, 10)
    /\ At(time_series_clean, 10) = Unit
    /\ evaluated = 5..15

----------------------------------------------------------------------------
(* C7 *)

\* the entries of given[p - window_size : p + window_size]
C7_Window(p) == Slice(given, p - window_size.val, p + window_size.val)

\* C7: at every evaluated position p of the loop, (a) when the window has
\* a defined entry and the sample at p is defined, the median over the
\* defined entries is defined and the flag is exactly
\* deviation > threshold * k * nanmedian(|window - median|); (b) when the
\* whole window is NaN the position is not flagged, is not in
\* outlier_indices and keeps its input value; no error is raised.
C7_MissingValues ==
    FastRunning =>
        /\ error = "none"
        /\ \A p \in evaluated :
            LET w == C7_Window(p)
                m == SortedMedian(Defined(w))
                d == Abs(At(given, p) - m)
                mad == NanMedian(AbsDev(w, m))
            IN  /\ (Len(Defined(w)) > 0 /\ At(given, p) # NaN) =>
                       /\ m # NaN
                       /\ At(is_outlier, p) <=>
                              (d * k[2] > threshold.val * k[1] * mad)
                       /\ At(is_outlier, p) => At(time_series_clean, p) = m
                /\ Len(Defined(w)) = 0 =>
                       /\ ~At(is_outlier, p)
                       /\ p \notin Elems(outlier_indices)
                       /\ At(time_series_clean, p) = At(given, p)

C7_Witness ==
    /\ op = "fast"
    /\ pc = "returned"
    /\ \E p \in evaluated :
           /\ HasNaN(C7_Window(p))
           /\ At(given, p) # NaN
           /\ At(is_outlier, p)
    /\ \E p \in evaluated :
           /\ Len(Defined(C7_Window(p))) = 0
           /\ ~At(is_outlier, p)

----------------------------------------------------------------------------
(* C8 *)

SecondPassReturned == op = "fast" /\ pc = "returned" /\ pass = 2

\* C8, as stated: when the loop is run again on its own cleaned series
\* with the same parameters, no position the first pass left unflagged is
\* flagged by the second pass.
C8_NoNewFlagsOnCleanedSeries ==
    SecondPassReturned =>
        \A i \in 1..Len(is_outlier) : ~first.mask[i] => ~is_outlier[i]

\* position q lies in the window p - window_size .. p + window_size - 1
C8_InWindow(q, p) == p - window_size.val <= q /\ q < p + window_size.val

\* C8, amended: a position the first pass left unflagged and whose window
\* p - window_size .. p + window_size - 1 holds no position the first pass
\* flagged is not flagged by the second pass.
C8_NoNewFlagsAwayFromReplacements ==
    SecondPassReturned =>
        \A p \in 0..(Len(is_outlier) - 1) :
            (/\ ~At(first.mask, p)
             /\ \A q \in Elems(first.indices) : ~C8_InWindow(q, p)) =>
                ~At(is_outlier, p)

C8_Witness ==
    /\ SecondPassReturned
    /\ first.indices # << >>
    /\ \E p \in evaluated :
           /\ ~At(first.mask, p)
           /\ \A q \in Elems(first.indices) : ~C8_InWindow(q, p)
           /\ ~At(is_outlier, p)
    /\ \E p \in evaluated : ~At(first.mask, p) /\ At(is_outlier, p)

----------------------------------------------------------------------------
(* C9 *)

DetectDone == op = "filter" /\ pc \in {"assign", "returned"}

\* position p has a full centred window p - window_size .. p + window_size - 1
\* of defined samples
C9_Computable(p) ==
    /\ window_size.val <= p
    /\ p + window_size.val - 1 <= Len(given) - 1
    /\ ~HasNaN(Slice(given, p - window_size.val, p + window_size.val))

C9_ComputablePositions == {p \in 0..(Len(given) - 1) : C9_Computable(p)}

\* C9, as stated: for every series of length n >= 1 and every
\* window_size > 0, after the fills every position of rolling_median and
\* of the rolling MAD is defined.
C9_RollingStatisticsAlwaysDefined ==
    (DetectDone /\ Len(given) >= 1) =>
        \A i \in 1..Len(given) : rolling_median[i] # NaN /\ rolling_mad[i] # NaN

\* C9, amended: when at least one position has a full centred window of
\* defined samples (for a series without missing values: n >= 2 *
\* window_size), after the fills every position of rolling_median and of
\* the rolling MAD is defined, the positions before the first such position
\* hold its value and the positions after the last such position hold the
\* value of the last; when no position has one, every position of both is
\* NaN.
C9_RollingStatisticsDefinedWhenAWindowFits ==
    (DetectDone /\ Len(given) >= 1) =>
        /\ Len(rolling_median) = Len(given)
        /\ Len(rolling_mad) = Len(given)
        /\ IF C9_ComputablePositions = {}
           THEN \A i \in 1..Len(given) :
                    rolling_median[i] = NaN /\ rolling_mad[i] = NaN
           ELSE LET lo == CHOOSE p \in C9_ComputablePositions :
                              \A q \in C9_ComputablePositions : p <= q
                    hi == CHOOSE p \in C9_ComputablePositions :
                              \A q \in C9_ComputablePositions : q <= p
                IN  /\ \A i \in 1..Len(given) :
                           rolling_median[i] # NaN /\ rolling_mad[i] # NaN
                    /\ \A p \in 0..lo :
                           /\ At(rolling_median, p) = At(rolling_median, lo)
                           /\ At(rolling_mad, p) = At(rolling_mad, lo)
                    /\ \A p \in hi..(Len(given) - 1) :
                           /\ At(rolling_median, p) = At(rolling_median, hi)
                           /\ At(rolling_mad, p) = At(rolling_mad, hi)
                    /\ \A p \in C9_ComputablePositions :
                           LET w == Slice(given, p - window_size.val,
                                          p + window_size.val)
                           IN  /\ 2 * Cardinality({i \in 1..Len(w) :
                                      w[i] < At(rolling_median, p)}) <= Len(w)
                               /\ 2 * Cardinality({i \in 1..Len(w) :
                                      w[i] > At(rolling_median, p)}) <= Len(w)

C9_Witness ==
    /\ DetectDone
    /\ window_size.val = 2
    /\ Len(given) = 5
    /\ C9_ComputablePositions = {2}
    /\ At(given, 4) = NaN
    /\ At(rolling_median, 0) = Unit
    /\ At(rolling_median, 4) = Unit
    /\ At(rolling_mad, 4) = Unit

----------------------------------------------------------------------------
(* C10 *)

\* C10: the wrapper ends for every indexed series having entered itself
\* once only, having called the loop exactly once on the raw buffer with
\* the radius floor(window_size / 2), and without an error.
C10_WrapperCallsTheLoopOnce ==
    (op = "wrapper" /\ pc \in {"returned", "raised"}) =>
        /\ error = "none"
        /\ frames = 1
        /\ core_calls = 1

====
